---- MODULE Spec2Model ----
(***************************************************************************)
(* Reportlet interfaces of fmripost_aroma/interfaces/reportlets.py:        *)
(* MELODICRPT, ICAAROMARPT, SummaryInterface, SubjectSummary and           *)
(* AboutSummary, each as the state an instance keeps between runs plus the *)
(* filesystem it writes to.  A Python str is a sequence of one-character   *)
(* strings, so that str.replace, os.path and the BIDS_NAME pattern are     *)
(* computed character by character as the interpreter computes them.       *)
(***************************************************************************)
EXTENDS Integers, Sequences, FiniteSets, TLC

VARIABLES melodic, mrun, files, aroma, arun, summary, srun

vars == <<melodic, mrun, files, aroma, arun, summary, srun>>

(* ------------------------------ bounds -------------------------------- *)

MaxRuns == 2

MaxBold == 2

MaxStruct == 2

(* ------------------------- Python values ------------------------------ *)

\* nipype's Undefined and Python's None, kept apart from every str
Undefined == <<"<undefined>">>

None == <<"None">>

isdefined(x) == x # Undefined

(* ------------------------- str and os.path ---------------------------- *)

StartsWith(s, p) == Len(s) >= Len(p) /\ SubSeq(s, 1, Len(p)) = p

EndsWith(s, p) == Len(s) >= Len(p) /\ SubSeq(s, Len(s) - Len(p) + 1, Len(s)) = p

\* str.replace(old, new): every non-overlapping occurrence, left to right
RECURSIVE Replace(_, _, _)
Replace(s, old, new) ==
    IF Len(s) < Len(old) THEN s
    ELSE IF StartsWith(s, old)
         THEN new \o Replace(SubSeq(s, Len(old) + 1, Len(s)), old, new)
         ELSE <<Head(s)>> \o Replace(Tail(s), old, new)

isabs(p) == Len(p) > 0 /\ p[1] = "/"

join(a, b) ==
    IF isabs(b) THEN b
    ELSE IF a = <<>> \/ a[Len(a)] = "/" THEN a \o b
    ELSE a \o <<"/">> \o b

\* str.split("/")
RECURSIVE SplitFrom(_, _, _)
SplitFrom(p, i, cur) ==
    IF i > Len(p) THEN <<cur>>
    ELSE IF p[i] = "/" THEN <<cur>> \o SplitFrom(p, i + 1, <<>>)
    ELSE SplitFrom(p, i + 1, Append(cur, p[i]))

Split(p) == SplitFrom(p, 1, <<>>)

\* "/".join(comps)
RECURSIVE JoinSlash(_)
JoinSlash(comps) ==
    IF comps = <<>> THEN <<>>
    ELSE IF Len(comps) = 1 THEN comps[1]
    ELSE comps[1] \o <<"/">> \o JoinSlash(Tail(comps))

\* the loop of posixpath.normpath over the components
RECURSIVE NormComps(_, _, _, _)
NormComps(comps, i, acc, initial) ==
    IF i > Len(comps) THEN acc
    ELSE LET comp == comps[i] IN
         IF comp = <<>> \/ comp = <<".">> THEN NormComps(comps, i + 1, acc, initial)
         ELSE IF \/ comp # <<".", ".">>
                 \/ (initial = 0 /\ acc = <<>>)
                 \/ (acc # <<>> /\ acc[Len(acc)] = <<".", ".">>)
              THEN NormComps(comps, i + 1, Append(acc, comp), initial)
              ELSE IF acc # <<>>
                   THEN NormComps(comps, i + 1, SubSeq(acc, 1, Len(acc) - 1), initial)
                   ELSE NormComps(comps, i + 1, acc, initial)

normpath(p) ==
    IF p = <<>> THEN <<".">>
    ELSE LET initial == IF ~isabs(p) THEN 0
                        ELSE IF StartsWith(p, <<"/", "/">>) /\ ~StartsWith(p, <<"/", "/", "/">>)
                             THEN 2 ELSE 1
             body == JoinSlash(NormComps(Split(p), 1, <<>>, initial))
             out == (IF initial = 2 THEN <<"/", "/">> ELSE IF initial = 1 THEN <<"/">> ELSE <<>>)
                    \o body
         IN IF out = <<>> THEN <<".">> ELSE out

\* os.path.abspath, the process being in directory cwd
abspath(cwd, p) == normpath(IF isabs(p) THEN p ELSE join(cwd, p))

RECURSIVE LastSlash(_, _)
LastSlash(p, i) == IF i = 0 THEN 0 ELSE IF p[i] = "/" THEN i ELSE LastSlash(p, i - 1)

RECURSIVE RStripSlash(_)
RStripSlash(p) ==
    IF p # <<>> /\ p[Len(p)] = "/" THEN RStripSlash(SubSeq(p, 1, Len(p) - 1)) ELSE p

dirname(p) ==
    LET head == SubSeq(p, 1, LastSlash(p, Len(p)))
    IN IF RStripSlash(head) = <<>> THEN head ELSE RStripSlash(head)

(* --------------------------- the filesystem --------------------------- *)

SVG == <<".", "s", "v", "g">>

HTML == <<".", "h", "t", "m", "l">>

MELODIC_MIX == <<"m", "e", "l", "o", "d", "i", "c", "_", "m", "i", "x">>

\* the working directories the workflow engine hands out as runtime.cwd
CwdSet == {<<"/", "w">>, <<"/", "n", ".", "s", "v", "g">>}

\* directories that exist; no interface of the module creates one
ExistingDirs ==
    CwdSet \cup {<<"/", "o">>, <<"/", "m">>, <<"/", "w", "/", "m">>,
                 <<"/", "n", ".", "s", "v", "g", "/", "m">>}

\* files is a function from the paths that exist to their content
Write(fs, path, content) ==
    [p \in DOMAIN fs \cup {path} |-> IF p = path THEN content ELSE fs[p]]

exists(fs, path) == path \in DOMAIN fs

\* open(path, "w") raises FileNotFoundError unless the directory exists
CanOpen(path) == dirname(path) \in ExistingDirs

NoFiles == [p \in {} |-> <<>>]

(* ----------------------------- MELODICRPT ----------------------------- *)

OutReportNames ==
    {<<"r", "p", "t", ".", "s", "v", "g">>,
     <<"r", "p", "t", ".", "p", "n", "g">>,
     <<"/", "o", "/", "r", "p", "t", ".", "s", "v", "g">>}

OutDirNames == {Undefined, <<"m">>}

\* snippet written when MELODIC did not converge
Snippet == <<"<h4>", "MELODIC did not converge, no output", "</h4>">>

\* what plot_melodic_components leaves at out_file when it succeeds
Rendered == <<"<svg>", "components", "</svg>">>

MELODICRPT_init ==
    [generate_report |-> FALSE,
     out_report |-> <<"r", "p", "t", ".", "s", "v", "g">>,
     out_dir |-> Undefined,
     _out_report |-> None,
     _melodic_dir |-> None]

\* the directory MELODIC decomposes into: out_dir if defined, else the cwd
ToolDir(self, cwd) ==
    abspath(cwd, IF isdefined(self.out_dir) THEN self.out_dir ELSE cwd)

\* the external plot_melodic_components: renders to out_file, or raises
PlotCall(mdir, out_file, noise) ==
    [melodic_dir |-> mdir, out_file |-> out_file, noise_components_file |-> noise]

HookResult(self, fs, written, plotted, raised) ==
    [self |-> self, files |-> fs, written |-> written, plotted |-> plotted,
     raised |-> raised]

MELODICRPT_generate_report(self, cwd, fs, plot_ok) ==
    LET call == PlotCall(self._melodic_dir, self._out_report, None)
        out == abspath(cwd, self._out_report)
    IN IF plot_ok /\ CanOpen(out)
       THEN HookResult(self, Write(fs, out, Rendered), {out}, <<call>>, FALSE)
       ELSE HookResult(self, fs, {}, <<call>>, TRUE)

MELODICRPT_fallback_name(out_report) == Replace(out_report, SVG, HTML)

\* _post_run_hook past its early return (lines 144-164)
MELODICRPT_report(self, cwd, fs, plot_ok) ==
    LET melodic_dir == ToolDir(self, cwd)
        resolved == IF isabs(self.out_report) THEN self.out_report
                    ELSE abspath(cwd, join(cwd, self.out_report))
        mix == join(melodic_dir, MELODIC_MIX)
    IN IF ~exists(fs, mix)
       THEN LET fallback == MELODICRPT_fallback_name(resolved)
                s == [self EXCEPT !._melodic_dir = melodic_dir, !._out_report = fallback]
            IN IF CanOpen(fallback)
               THEN HookResult(s, Write(fs, fallback, Snippet), {fallback}, <<>>, FALSE)
               ELSE HookResult(s, fs, {}, <<>>, TRUE)
       ELSE MELODICRPT_generate_report(
                [self EXCEPT !._melodic_dir = melodic_dir, !._out_report = resolved],
                cwd, fs, plot_ok)

\* the hook without its early return
MELODICRPT_post_run_hook_always(self, cwd, fs, plot_ok) ==
    MELODICRPT_report(self, cwd, fs, plot_ok)

MELODICRPT_post_run_hook(self, cwd, fs, plot_ok) ==
    IF ~self.generate_report THEN HookResult(self, fs, {}, <<>>, FALSE)
    ELSE MELODICRPT_report(self, cwd, fs, plot_ok)

\* fsl.MELODIC._list_outputs as the wrapper sees it: out_dir, and an
\* out_report the output spec declares but leaves undefined
MELODIC_list_outputs(self, cwd) ==
    [out_dir |-> ToolDir(self, cwd), out_report |-> Undefined]

\* listing the configured name instead of the path the hook kept
MELODICRPT_list_outputs_inputs(self, cwd) ==
    [MELODIC_list_outputs(self, cwd) EXCEPT !.out_report = self.out_report]

MELODICRPT_list_outputs(self, cwd) ==
    LET outputs == MELODIC_list_outputs(self, cwd)
    IN IF self._out_report # None
       THEN [outputs EXCEPT !.out_report = self._out_report]
       ELSE outputs

NoOutputs == [out_dir |-> Undefined, out_report |-> Undefined]

MRunInit ==
    [n |-> 0, outcome |-> "none", generate_report |-> FALSE, cwd |-> <<>>,
     mix |-> FALSE, configured |-> <<>>, outputs |-> NoOutputs, written |-> {},
     plotted |-> <<>>, before |-> NoFiles]

\* iface.generate_report = b, between two runs
MELODICRPT_set_generate_report(b) ==
    /\ melodic.generate_report # b
    /\ melodic' = [melodic EXCEPT !.generate_report = b]
    /\ UNCHANGED <<mrun, files, aroma, arun, summary, srun>>

\* iface.inputs.out_report = name
MELODICRPT_set_out_report(name) ==
    /\ melodic.out_report # name
    /\ melodic' = [melodic EXCEPT !.out_report = name]
    /\ UNCHANGED <<mrun, files, aroma, arun, summary, srun>>

\* iface.inputs.out_dir = d
MELODICRPT_set_out_dir(d) ==
    /\ melodic.out_dir # d
    /\ melodic' = [melodic EXCEPT !.out_dir = d]
    /\ UNCHANGED <<mrun, files, aroma, arun, summary, srun>>

\* run(): MELODIC itself (which leaves melodic_mix when it converges), then
\* _post_run_hook, then aggregate_outputs over _list_outputs
MELODICRPT_run(cwd, converged, plot_ok) ==
    /\ mrun.n < MaxRuns
    /\ LET fs1 == IF converged
                  THEN Write(files, join(ToolDir(melodic, cwd), MELODIC_MIX), <<"mix">>)
                  ELSE files
           h == MELODICRPT_post_run_hook(melodic, cwd, fs1, plot_ok)
       IN /\ melodic' = h.self
          /\ files' = h.files
          /\ mrun' = [n |-> mrun.n + 1,
                      outcome |-> IF h.raised THEN "raised" ELSE "ok",
                      generate_report |-> melodic.generate_report,
                      cwd |-> cwd,
                      mix |-> exists(fs1, join(ToolDir(melodic, cwd), MELODIC_MIX)),
                      configured |-> melodic.out_report,
                      outputs |-> IF h.raised THEN NoOutputs
                                  ELSE MELODICRPT_list_outputs(h.self, cwd),
                      written |-> h.written,
                      plotted |-> h.plotted,
                      before |-> fs1]
    /\ UNCHANGED <<aroma, arun, summary, srun>>

NextMELODIC ==
    \/ \E b \in BOOLEAN : MELODICRPT_set_generate_report(b)
    \/ \E name \in OutReportNames : MELODICRPT_set_out_report(name)
    \/ \E d \in OutDirNames : MELODICRPT_set_out_dir(d)
    \/ \E cwd \in CwdSet, converged \in BOOLEAN, plot_ok \in BOOLEAN :
          MELODICRPT_run(cwd, converged, plot_ok)

(* ----------------------------- ICAAROMARPT ---------------------------- *)

CLASSIFIED ==
    <<"c", "l", "a", "s", "s", "i", "f", "i", "e", "d", "_", "m", "o", "t",
      "i", "o", "n", "_", "I", "C", "s", ".", "t", "x", "t">>

AromaOutDirNames == {<<"o", "u", "t">>, <<"/", "m">>, <<"m">>}

AromaReportNames ==
    {<<"a", "r", "o", "m", "a", ".", "s", "v", "g">>,
     <<"/", "o", "/", "a", "r", "o", "m", "a", ".", "s", "v", "g">>}

\* _noise_components_file is no attribute of the instance before the first hook
ICAAROMARPT_init ==
    [generate_report |-> FALSE,
     out_report |-> <<"a", "r", "o", "m", "a", ".", "s", "v", "g">>,
     out_dir |-> <<"o", "u", "t">>,
     melodic_dir |-> Undefined,
     _out_report |-> None,
     _noise_components_file |-> None]

\* aggregate_outputs over fsl.ICA_AROMA._list_outputs and the mixin's
ICAAROMARPT_aggregate_outputs(self, cwd) ==
    [out_dir |-> abspath(cwd, self.out_dir),
     out_report |-> IF self._out_report # None THEN self._out_report ELSE Undefined]

ICAAROMARPT_generate_report(self, plot_ok) ==
    [plotted |-> <<PlotCall(self.melodic_dir, self.out_report,
                            self._noise_components_file)>>,
     raised |-> ~plot_ok]

\* reporting.ReportCapableInterface._post_run_hook, reached through super()
ReportCapable_post_run_hook(self, cwd, plot_ok) ==
    IF ~self.generate_report
    THEN [self |-> self, plotted |-> <<>>, raised |-> FALSE]
    ELSE LET s == [self EXCEPT !._out_report =
                       IF isabs(self.out_report) THEN self.out_report
                       ELSE abspath(cwd, join(cwd, self.out_report))]
             g == ICAAROMARPT_generate_report(s, plot_ok)
         IN [self |-> s, plotted |-> g.plotted, raised |-> g.raised]

\* the hook with the assignment moved behind super()._post_run_hook
ICAAROMARPT_post_run_hook_late(self, cwd, plot_ok) ==
    LET outputs == ICAAROMARPT_aggregate_outputs(self, cwd)
        h == ReportCapable_post_run_hook(self, cwd, plot_ok)
    IN [self |-> [h.self EXCEPT !._noise_components_file =
                      join(outputs.out_dir, CLASSIFIED)],
        collected |-> outputs, plotted |-> h.plotted, raised |-> h.raised]

ICAAROMARPT_post_run_hook(self, cwd, plot_ok) ==
    LET outputs == ICAAROMARPT_aggregate_outputs(self, cwd)
        s == [self EXCEPT !._noise_components_file = join(outputs.out_dir, CLASSIFIED)]
        h == ReportCapable_post_run_hook(s, cwd, plot_ok)
    IN [self |-> h.self, collected |-> outputs, plotted |-> h.plotted,
        raised |-> h.raised]

ARunInit ==
    [n |-> 0, outcome |-> "none", cwd |-> <<>>, generate_report |-> FALSE,
     out_dir |-> <<>>, noise_before |-> None,
     collected |-> NoOutputs, outputs |-> NoOutputs, plotted |-> <<>>]

ICAAROMARPT_set_generate_report(b) ==
    /\ aroma.generate_report # b
    /\ aroma' = [aroma EXCEPT !.generate_report = b]
    /\ UNCHANGED <<melodic, mrun, files, arun, summary, srun>>

ICAAROMARPT_set_out_dir(d) ==
    /\ aroma.out_dir # d
    /\ aroma' = [aroma EXCEPT !.out_dir = d]
    /\ UNCHANGED <<melodic, mrun, files, arun, summary, srun>>

ICAAROMARPT_set_out_report(name) ==
    /\ aroma.out_report # name
    /\ aroma' = [aroma EXCEPT !.out_report = name]
    /\ UNCHANGED <<melodic, mrun, files, arun, summary, srun>>

\* run(): ICA-AROMA itself, whose failure surfaces before the hook, then
\* _post_run_hook, then aggregate_outputs
ICAAROMARPT_run(cwd, tool_ok, plot_ok) ==
    /\ arun.n < MaxRuns
    /\ IF ~tool_ok
       THEN /\ arun' = [ARunInit EXCEPT !.n = arun.n + 1, !.outcome = "raised",
                                        !.cwd = cwd,
                                        !.out_dir = aroma.out_dir,
                                        !.noise_before = aroma._noise_components_file,
                                        !.generate_report = aroma.generate_report]
            /\ aroma' = aroma
       ELSE LET h == ICAAROMARPT_post_run_hook(aroma, cwd, plot_ok)
            IN /\ aroma' = h.self
               /\ arun' = [n |-> arun.n + 1,
                           outcome |-> IF h.raised THEN "raised" ELSE "ok",
                           cwd |-> cwd,
                           generate_report |-> aroma.generate_report,
                           out_dir |-> aroma.out_dir,
                           noise_before |-> aroma._noise_components_file,
                           collected |-> h.collected,
                           outputs |-> IF h.raised THEN NoOutputs
                                       ELSE ICAAROMARPT_aggregate_outputs(h.self, cwd),
                           plotted |-> h.plotted]
    /\ UNCHANGED <<melodic, mrun, files, summary, srun>>

NextAROMA ==
    \/ \E b \in BOOLEAN : ICAAROMARPT_set_generate_report(b)
    \/ \E d \in AromaOutDirNames : ICAAROMARPT_set_out_dir(d)
    \/ \E name \in AromaReportNames : ICAAROMARPT_set_out_report(name)
    \/ \E cwd \in CwdSet, tool_ok \in BOOLEAN, plot_ok \in BOOLEAN :
          ICAAROMARPT_run(cwd, tool_ok, plot_ok)

(* ------------------- SummaryInterface and subclasses ------------------ *)

REPORT_HTML == <<"r", "e", "p", "o", "r", "t", ".", "h", "t", "m", "l">>

\* the characters of [a-zA-Z0-9], in code-point order
AlnumOrder ==
    <<"0", "1", "2", "3", "4", "5", "6", "7", "8", "9", "A", "B", "C", "D", "E",
      "F", "G", "H", "I", "J", "K", "L", "M", "N", "O", "P", "Q", "R", "S", "T",
      "U", "V", "W", "X", "Y", "Z", "a", "b", "c", "d", "e", "f", "g", "h", "i",
      "j", "k", "l", "m", "n", "o", "p", "q", "r", "s", "t", "u", "v", "w", "x",
      "y", "z">>

Alnum == {AlnumOrder[i] : i \in 1..Len(AlnumOrder)}

Ord(c) == CHOOSE i \in 1..Len(AlnumOrder) : AlnumOrder[i] = c

\* str < str: by code point, a proper prefix first
RECURSIVE LexLess(_, _)
LexLess(a, b) ==
    IF a = <<>> THEN b # <<>>
    ELSE IF b = <<>> THEN FALSE
    ELSE IF a[1] = b[1] THEN LexLess(Tail(a), Tail(b))
    ELSE Ord(a[1]) < Ord(b[1])

\* format(n, "d") of a non-negative int
RECURSIVE Format_d(_)
Format_d(n) ==
    IF n < 10 THEN <<AlnumOrder[n + 1]>>
    ELSE Format_d(n \div 10) \o <<AlnumOrder[(n % 10) + 1]>>

\* last index of the run of [a-zA-Z0-9] that starts at i; i - 1 when empty
RECURSIVE AlnumEnd(_, _)
AlnumEnd(s, i) ==
    IF i <= Len(s) /\ s[i] \in Alnum THEN AlnumEnd(s, i + 1) ELSE i - 1

\* key-[a-zA-Z0-9]+ at index i: the index of its last character, 0 when it
\* does not match there
EntityEnd(s, i, p, e) ==
    IF i + Len(p) - 1 <= Len(s) /\ SubSeq(s, i, i + Len(p) - 1) = p /\ e >= i + Len(p)
    THEN e ELSE 0

MatchEntity(s, i, key) ==
    EntityEnd(s, i, key \o <<"-">>, AlnumEnd(s, i + Len(key) + 1))

\* (_(?P<key_id>key-[a-zA-Z0-9]+))? at index i: the group, and where the
\* match goes on
GroupAt(s, i, e) ==
    IF e > 0 THEN [val |-> SubSeq(s, i + 1, e), next |-> e + 1]
    ELSE [val |-> None, next |-> i]

OptGroup(s, i, key) ==
    GroupAt(s, i, IF i <= Len(s) /\ s[i] = "_" THEN MatchEntity(s, i + 1, key) ELSE 0)

\* the optional groups that follow the subject entity, in the pattern's order
OptionalKeys ==
    << <<"s", "e", "s">>, <<"t", "a", "s", "k">>, <<"a", "c", "q">>,
       <<"r", "e", "c">>, <<"r", "u", "n">> >>

RECURSIVE OptGroups(_, _, _)
OptGroupsAfter(s, g, keys) == <<g.val>> \o OptGroups(s, g.next, keys)

OptGroups(s, i, keys) ==
    IF keys = <<>> THEN <<>>
    ELSE OptGroupsAfter(s, OptGroup(s, i, keys[1]), Tail(keys))

SUB == <<"s", "u", "b">>

\* ^(.*\/)?sub-[a-zA-Z0-9]+ : the greedy prefix ends at the last "/" that a
\* subject entity follows, and is skipped when there is none; the index the
\* subject entity starts at, 0 when the pattern does not match
RECURSIVE FindStart(_, _)
FindStart(s, i) ==
    IF i = 0 THEN (IF MatchEntity(s, 1, SUB) > 0 THEN 1 ELSE 0)
    ELSE IF s[i] = "/" /\ MatchEntity(s, i + 1, SUB) > 0 THEN i + 1
    ELSE FindStart(s, i - 1)

NoMatch ==
    [matched |-> FALSE, subject_id |-> None, session_id |-> None, task_id |-> None,
     acq_id |-> None, rec_id |-> None, run_id |-> None]

\* BIDS_NAME.search(series), and .groupdict() of the match
GroupDict(subject_id, g) ==
    [matched |-> TRUE, subject_id |-> subject_id, session_id |-> g[1],
     task_id |-> g[2], acq_id |-> g[3], rec_id |-> g[4], run_id |-> g[5]]

MatchFrom(s, st, e0) ==
    GroupDict(SubSeq(s, st, e0), OptGroups(s, e0 + 1, OptionalKeys))

SearchFrom(s, st) == IF st = 0 THEN NoMatch ELSE MatchFrom(s, st, MatchEntity(s, st, SUB))

BIDS_NAME_search(s) == SearchFrom(s, FindStart(s, Len(s)))

\* An InputMultiObject (t1w, t2w, bold) is a sequence, and <<>> is the
\* Undefined that nipype stores for an empty one: its len() is 0 and it is
\* false, as nipype patches Undefined.__len__.
UndefinedMulti == <<>>

\* a functional-series entry: one path, or a list of paths
File(p) == [islist |-> FALSE, items |-> <<p>>]

List(ps) == [islist |-> TRUE, items |-> ps]

REST_RUN1 ==
    <<"s", "u", "b", "-", "0", "1", "_", "t", "a", "s", "k", "-", "r", "e", "s", "t",
      "_", "r", "u", "n", "-", "1", "_", "b", "o", "l", "d", ".", "n", "i", "i", ".",
      "g", "z">>

REST_RUN2 ==
    <<"s", "u", "b", "-", "0", "1", "_", "t", "a", "s", "k", "-", "r", "e", "s", "t",
      "_", "r", "u", "n", "-", "2", "_", "b", "o", "l", "d", ".", "n", "i", "i", ".",
      "g", "z">>

MOTOR ==
    <<"/", "d", "/", "s", "u", "b", "-", "0", "1", "/", "s", "u", "b", "-", "0", "1",
      "_", "s", "e", "s", "-", "1", "_", "t", "a", "s", "k", "-", "m", "o", "t", "o",
      "r", "_", "b", "o", "l", "d", ".", "n", "i", "i", ".", "g", "z">>

\* acq before task: the pattern matches and finds no task label
ACQ_FIRST ==
    <<"s", "u", "b", "-", "0", "1", "_", "a", "c", "q", "-", "h", "i", "_", "t", "a",
      "s", "k", "-", "r", "e", "s", "t", "_", "b", "o", "l", "d", ".", "n", "i", "i",
      ".", "g", "z">>

\* no subject entity: the pattern does not match
NO_SUBJECT ==
    <<"/", "d", "/", "t", "a", "s", "k", "-", "r", "e", "s", "t", "_", "b", "o", "l",
      "d", ".", "n", "i", "i", ".", "g", "z">>

BoldEntries ==
    {File(REST_RUN1), List(<<REST_RUN2, MOTOR>>), File(MOTOR), File(ACQ_FIRST),
     File(NO_SUBJECT)}

\* groupdict() of BIDS_NAME.search for every path of BoldEntries, computed once
BIDS_NAME_groupdict ==
    [s \in {REST_RUN1, REST_RUN2, MOTOR, ACQ_FIRST, NO_SUBJECT} |-> BIDS_NAME_search(s)]

\* every list entry counted once per item instead of by its first item
RECURSIVE BoldSeries_flat(_)
BoldSeries_flat(bold) ==
    IF bold = UndefinedMulti THEN <<>>
    ELSE bold[1].items \o BoldSeries_flat(Tail(bold))

\* lines 297-298: [] when undefined, the first item of every list entry
BoldSeries(bold) ==
    IF bold = UndefinedMulti THEN <<>>
    ELSE [i \in 1..Len(bold) |-> IF bold[i].islist THEN bold[i].items[1]
                                 ELSE bold[i].items[1]]

\* Counter: task label -> count, in the order the labels first appear
RECURSIVE CounterAdd(_, _)
CounterAdd(counts, label) ==
    IF counts = <<>> THEN <<[task_id |-> label, n_runs |-> 1]>>
    ELSE IF counts[1].task_id = label
         THEN <<[counts[1] EXCEPT !.n_runs = @ + 1]>> \o Tail(counts)
         ELSE <<counts[1]>> \o CounterAdd(Tail(counts), label)

TaskLabel(m) == SubSeq(m.task_id, 6, Len(m.task_id))

\* series that do not parse are passed over
RECURSIVE ParseTasks_skip(_, _, _)
ParseOne_skip(series, i, counts, m) ==
    IF ~m.matched \/ m.task_id = None
    THEN ParseTasks_skip(series, i + 1, counts)
    ELSE ParseTasks_skip(series, i + 1, CounterAdd(counts, TaskLabel(m)))

ParseTasks_skip(series, i, counts) ==
    IF i > Len(series) THEN [error |-> "", counts |-> counts]
    ELSE ParseOne_skip(series, i, counts, BIDS_NAME_groupdict[series[i]])

\* lines 300-302: search() is None -> AttributeError, task_id is None -> TypeError
RECURSIVE ParseTasks(_, _, _)
ParseOne(series, i, counts, m) ==
    IF ~m.matched THEN [error |-> "AttributeError", counts |-> <<>>]
    ELSE IF m.task_id = None THEN [error |-> "TypeError", counts |-> <<>>]
    ELSE ParseTasks(series, i + 1, CounterAdd(counts, TaskLabel(m)))

ParseTasks(series, i, counts) ==
    IF i > Len(series) THEN [error |-> "", counts |-> counts]
    ELSE ParseOne(series, i, counts, BIDS_NAME_groupdict[series[i]])

RECURSIVE SortedInsert(_, _)
SortedInsert(sorted, c) ==
    IF sorted = <<>> THEN <<c>>
    ELSE IF LexLess(c.task_id, sorted[1].task_id) THEN <<c>> \o sorted
    ELSE <<sorted[1]>> \o SortedInsert(Tail(sorted), c)

RECURSIVE SortedFrom(_, _, _)
SortedFrom(counts, i, acc) ==
    IF i > Len(counts) THEN acc
    ELSE SortedFrom(counts, i + 1, SortedInsert(acc, counts[i]))

\* the items in the order the Counter holds them
Sorted_unsorted(counts) == counts

\* sorted(counts.items())
Sorted(counts) == SortedFrom(counts, 1, <<>>)

TaskLine(c) ==
    << <<"\t\t\t<li>Task: ">>, c.task_id, <<" (">>, Format_d(c.n_runs), <<" run">>,
       IF c.n_runs = 1 THEN <<>> ELSE <<"s">>, <<")</li>">> >>

TaskHeader == << <<"\t\t<ul class=\"elem-desc\">">> >>

TaskFooter == << <<"\t\t</ul>">> >>

\* lines 304-314: the lines that "\n".join puts together; "" when no counts
TaskLines(items) == [i \in 1..Len(items) |-> TaskLine(items[i])]

Tasks(counts) ==
    IF counts = <<>> THEN <<>>
    ELSE <<TaskHeader>> \o TaskLines(Sorted(counts)) \o <<TaskFooter>>

\* ", ".join(list)
RECURSIVE CommaJoin(_)
CommaJoin(l) ==
    IF l = <<>> THEN <<>>
    ELSE IF Len(l) = 1 THEN <<l[1]>>
    ELSE <<l[1], ", ">> \o CommaJoin(Tail(l))

ECHO == <<"e", "c", "h", "o">>

\* ReconAll(...).cmdline: a no-op echo when the subject directory is there
ReconAll_cmdline(noop) ==
    IF noop
    THEN <<"e", "c", "h", "o", " ", "r", "e", "c", "o", "n", "-", "a", "l", "l", ":",
           " ", "n", "o", "t", "h", "i", "n", "g", " ", "t", "o", " ", "d", "o">>
    ELSE <<"r", "e", "c", "o", "n", "-", "a", "l", "l", " ", "-", "a", "u", "t", "o",
           "r", "e", "c", "o", "n", "1", " ", "-", "n", "o", "s", "k", "u", "l", "l",
           "s", "t", "r", "i", "p">>

NotRun == <<"Not run">>

PreExisting == <<"Pre-existing directory">>

\* the spec's "Run by pipeline"
RunByPipeline == <<"Run by fMRIPrep">>

\* lines 278-290; "sub-" + Undefined is a TypeError
FreesurferStatus(self, env) ==
    IF ~isdefined(self.subjects_dir) THEN [error |-> "", status |-> NotRun]
    ELSE IF ~isdefined(self.subject_id) THEN [error |-> "TypeError", status |-> NotRun]
    ELSE IF StartsWith(ReconAll_cmdline(env.recon_noop), ECHO)
         THEN [error |-> "", status |-> PreExisting]
         ELSE [error |-> "", status |-> RunByPipeline]

\* lines 292-294
T2wSeg(t2w) ==
    IF Len(t2w) > 0
    THEN <<"(+ ">> \o Format_d(Len(t2w)) \o <<" T2-weighted)">>
    ELSE <<>>

NoSegment == [template |-> "none"]

Raise(e) == [error |-> e, segment |-> NoSegment]

\* lines 316-325
SUBJECT_TEMPLATE_format(self, fs, bold_series, parsed) ==
    IF fs.error # "" THEN Raise(fs.error)
    ELSE IF parsed.error # "" THEN Raise(parsed.error)
    ELSE [error |-> "",
          segment |-> [template |-> "SUBJECT_TEMPLATE",
                       subject_id |-> self.subject_id,
                       n_t1s |-> Format_d(Len(self.t1w)),
                       t2w |-> T2wSeg(self.t2w),
                       n_bold |-> Format_d(Len(bold_series)),
                       tasks |-> Tasks(parsed.counts),
                       std_spaces |-> CommaJoin(self.std_spaces),
                       nstd_spaces |-> CommaJoin(self.nstd_spaces),
                       freesurfer_status |-> fs.status]]

SubjectSummary_count_tasks(self, fs, bold_series) ==
    SUBJECT_TEMPLATE_format(self, fs, bold_series,
        IF fs.error # "" THEN [error |-> "", counts |-> <<>>]
        ELSE ParseTasks(bold_series, 1, <<>>))

SubjectSummary_generate_segment(self, env) ==
    SubjectSummary_count_tasks(self, FreesurferStatus(self, env), BoldSeries(self.bold))

\* time.strftime("%Y-%m-%d %H:%M:%S %z") at two moments
TimeStamps == {"2024-05-01 10:00:00 +0000", "2024-05-02 23:59:59 +0200"}

AboutSummary_generate_segment(self, env) ==
    [error |-> "",
     segment |-> [template |-> "ABOUT_TEMPLATE", version |-> self.version,
                  command |-> self.command, date |-> env.now]]

SummaryInterface_generate_segment(self, env) == Raise("NotImplementedError")

generate_segment(self, env) ==
    CASE self.kind = "SubjectSummary" -> SubjectSummary_generate_segment(self, env)
      [] self.kind = "AboutSummary" -> AboutSummary_generate_segment(self, env)
      [] OTHER -> SummaryInterface_generate_segment(self, env)

RunResult(self, fs, error) == [self |-> self, files |-> fs, error |-> error]

\* out_report entered in _results before the segment is rendered
SummaryInterface_write_eager(self, cwd, fs, g) ==
    IF g.error # ""
    THEN RunResult([self EXCEPT !._results.out_report = join(cwd, REPORT_HTML)],
                   fs, g.error)
    ELSE RunResult([self EXCEPT !._results.out_report = join(cwd, REPORT_HTML)],
                   Write(fs, join(cwd, REPORT_HTML), g.segment), "")

\* lines 94-98, g being what _generate_segment returned or raised
SummaryInterface_write(self, cwd, fs, g) ==
    IF g.error # "" THEN RunResult(self, fs, g.error)
    ELSE IF ~CanOpen(join(cwd, REPORT_HTML)) THEN RunResult(self, fs, "FileNotFoundError")
    ELSE RunResult([self EXCEPT !._results.out_report = join(cwd, REPORT_HTML)],
                   Write(fs, join(cwd, REPORT_HTML), g.segment), "")

\* lines 92-98
SummaryInterface_run_interface(self, cwd, fs, env) ==
    SummaryInterface_write(self, cwd, fs, generate_segment(self, env))

\* lines 262-265
SubjectSummary_run_interface(self, cwd, fs, env) ==
    SummaryInterface_run_interface(
        IF isdefined(self.subject_id)
        THEN [self EXCEPT !._results.subject_id = self.subject_id]
        ELSE self,
        cwd, fs, env)

run_interface(self, cwd, fs, env) ==
    IF self.kind = "SubjectSummary"
    THEN SubjectSummary_run_interface(self, cwd, fs, env)
    ELSE SummaryInterface_run_interface(self, cwd, fs, env)

Kinds == {"SummaryInterface", "SubjectSummary", "AboutSummary"}

NoResults == [out_report |-> Undefined, subject_id |-> Undefined]

\* SimpleInterface.__init__: _results = {}; the workflow sets the two lists of
\* spaces when it builds the node, every other input starts undefined
Summary_init(kind) ==
    [kind |-> kind, t1w |-> UndefinedMulti, t2w |-> UndefinedMulti,
     bold |-> UndefinedMulti,
     subject_id |-> Undefined, subjects_dir |-> Undefined,
     std_spaces |-> <<"MNI152NLin6Asym", "MNI152NLin2009cAsym">>,
     nstd_spaces |-> <<"T1w">>,
     version |-> "23.1.0", command |-> "fmripost_aroma /data /out participant",
     _results |-> NoResults]

SRunInit ==
    [n |-> 0, outcome |-> "none", error |-> "", cwd |-> <<>>,
     env |-> [recon_noop |-> FALSE, now |-> ""],
     outputs |-> NoResults, results_before |-> NoResults, files_before |-> NoFiles]

Configuring == srun.outcome = "none" /\ srun.n < MaxRuns

SubjectIds == {Undefined, <<"0", "1">>}

SubjectsDirs == {Undefined, <<"/", "f", "s">>}

SubjectSummary_set_subject_id(v) ==
    /\ Configuring /\ summary.kind = "SubjectSummary" /\ summary.subject_id # v
    /\ summary' = [summary EXCEPT !.subject_id = v]
    /\ UNCHANGED <<melodic, mrun, files, aroma, arun, srun>>

SubjectSummary_set_subjects_dir(v) ==
    /\ Configuring /\ summary.kind = "SubjectSummary" /\ summary.subjects_dir # v
    /\ summary' = [summary EXCEPT !.subjects_dir = v]
    /\ UNCHANGED <<melodic, mrun, files, aroma, arun, srun>>

SubjectSummary_add_t1w ==
    /\ Configuring /\ summary.kind = "SubjectSummary" /\ Len(summary.t1w) < MaxStruct
    /\ summary' = [summary EXCEPT !.t1w = Append(@, "T1w.nii.gz")]
    /\ UNCHANGED <<melodic, mrun, files, aroma, arun, srun>>

SubjectSummary_add_t2w ==
    /\ Configuring /\ summary.kind = "SubjectSummary" /\ Len(summary.t2w) < MaxStruct
    /\ summary' = [summary EXCEPT !.t2w = Append(@, "T2w.nii.gz")]
    /\ UNCHANGED <<melodic, mrun, files, aroma, arun, srun>>

SubjectSummary_add_bold(e) ==
    /\ Configuring /\ summary.kind = "SubjectSummary" /\ Len(summary.bold) < MaxBold
    /\ summary' = [summary EXCEPT !.bold = Append(@, e)]
    /\ UNCHANGED <<melodic, mrun, files, aroma, arun, srun>>

\* what a run consults outside the instance: the clock (AboutSummary) and
\* the state of the subjects directory behind ReconAll.cmdline
Envs(self) ==
    IF self.kind = "AboutSummary"
    THEN {[recon_noop |-> FALSE, now |-> t] : t \in TimeStamps}
    ELSE IF self.kind = "SubjectSummary" /\ isdefined(self.subjects_dir)
         THEN {[recon_noop |-> b, now |-> ""] : b \in BOOLEAN}
         ELSE {[recon_noop |-> FALSE, now |-> ""]}

\* run(): _run_interface, then aggregate_outputs over _list_outputs, which
\* returns _results
Summary_run(cwd, env) ==
    /\ Configuring
    /\ \E r \in {run_interface(summary, cwd, files, env)} :
          /\ summary' = r.self
          /\ files' = r.files
          /\ srun' = [n |-> srun.n + 1,
                      outcome |-> IF r.error = "" THEN "ok" ELSE "raised",
                      error |-> r.error, cwd |-> cwd, env |-> env,
                      outputs |-> IF r.error = "" THEN r.self._results ELSE NoResults,
                      results_before |-> summary._results,
                      files_before |-> files]
    /\ UNCHANGED <<melodic, mrun, aroma, arun>>

\* the workflow engine calls the instance again, in a fresh working directory
Summary_next_invocation ==
    /\ srun.outcome # "none" /\ srun.n < MaxRuns
    /\ srun' = [SRunInit EXCEPT !.n = srun.n]
    /\ files' = NoFiles
    /\ UNCHANGED <<melodic, mrun, aroma, arun, summary>>

NextSummary ==
    \/ \E v \in SubjectIds : SubjectSummary_set_subject_id(v)
    \/ \E v \in SubjectsDirs : SubjectSummary_set_subjects_dir(v)
    \/ SubjectSummary_add_t1w
    \/ SubjectSummary_add_t2w
    \/ \E e \in BoldEntries : SubjectSummary_add_bold(e)
    \/ \E cwd \in CwdSet, env \in Envs(summary) : Summary_run(cwd, env)
    \/ Summary_next_invocation

(* --------------------------- specifications --------------------------- *)

Init ==
    /\ melodic = MELODICRPT_init
    /\ mrun = MRunInit
    /\ files = NoFiles
    /\ aroma = ICAAROMARPT_init
    /\ arun = ARunInit
    /\ summary = Summary_init("SubjectSummary")
    /\ srun = SRunInit

InitSummary ==
    /\ melodic = MELODICRPT_init
    /\ mrun = MRunInit
    /\ files = NoFiles
    /\ aroma = ICAAROMARPT_init
    /\ arun = ARunInit
    /\ summary \in {Summary_init(k) : k \in Kinds}
    /\ srun = SRunInit

SpecMELODIC == Init /\ [][NextMELODIC]_vars

SpecAROMA == Init /\ [][NextAROMA]_vars

SpecSummary == InitSummary /\ [][NextSummary]_vars

(* ------------------------------- claims ------------------------------- *)

NOTICE == "MELODIC did not converge, no output"

Contains(content, piece) == \E i \in 1..Len(content) : content[i] = piece

\* C1: a MELODICRPT run with generate_report=True that finds no melodic_mix
\* in the decomposition directory returns normally, never calls the plotting
\* routine, and writes one file, whose extension is .html and whose content
\* holds the non-convergence notice, whatever out_report name is configured.
C1_FallbackIsHtmlNotice ==
    (mrun.outcome # "none" /\ mrun.generate_report /\ ~mrun.mix) =>
        /\ mrun.outcome = "ok"
        /\ mrun.plotted = <<>>
        /\ \E p \in mrun.written :
              /\ mrun.written = {p}
              /\ EndsWith(p, HTML)
              /\ Contains(files[p], NOTICE)

\* C2: with generate_report=False the hook returns at once: it writes no
\* file, never calls the plotting routine, and the filesystem is as the
\* wrapped tool left it.
C2_NoReportWhenDisabled ==
    (mrun.outcome # "none" /\ ~mrun.generate_report) =>
        /\ mrun.outcome = "ok"
        /\ mrun.written = {}
        /\ mrun.plotted = <<>>
        /\ files = mrun.before

\* a disabled run that met no melodic_mix, on an instance that had written a
\* report before
C2_Witness ==
    /\ mrun.n = 2 /\ mrun.outcome = "ok" /\ ~mrun.generate_report /\ ~mrun.mix
    /\ melodic._out_report # None

\* the configured out_report, resolved against the working directory when
\* it is relative
ResolvedReport == 
    IF isabs(mrun.configured) THEN mrun.configured
    ELSE normpath(join(mrun.cwd, mrun.configured))

C10_NoCarriedOverReport ==
    mrun.outcome = "ok" =>
        /\ isdefined(mrun.outputs.out_report) =>
               mrun.outputs.out_report \in mrun.written
        /\ ~mrun.generate_report => ~isdefined(mrun.outputs.out_report)

\* C7: every call of the plotting routine gets, as noise_components_file,
\* classified_motion_ICs.txt inside the out_dir of the outputs aggregated in
\* the same invocation, which is the absolute path of that run's out_dir
\* input; it is never unset or the one of an earlier run.
C7_NoiseFileOfThisRun ==
    \A i \in 1..Len(arun.plotted) :
        /\ arun.plotted[i].noise_components_file = join(arun.collected.out_dir, CLASSIFIED)
        /\ arun.collected.out_dir = normpath(join(arun.cwd, arun.out_dir))
        /\ arun.plotted[i].noise_components_file # None

\* a plot in a run whose out_dir differs from the earlier run's
C7_Witness ==
    /\ arun.n = 2 /\ arun.outcome = "ok" /\ arun.plotted # <<>>
    /\ arun.noise_before # None
    /\ arun.noise_before # arun.plotted[1].noise_components_file

ReportFile == join(srun.cwd, REPORT_HTML)

IsSubject == summary.kind = "SubjectSummary"

\* what the pattern makes of the i-th functional-series entry
GroupDictOf(i) == BIDS_NAME_groupdict[summary.bold[i].items[1]]

Parses(i) == GroupDictOf(i).matched /\ GroupDictOf(i).task_id # None

LabelOf(i) == TaskLabel(GroupDictOf(i))

Labels == {LabelOf(i) : i \in 1..Len(summary.bold)}

RunsOf(label) == Cardinality({i \in 1..Len(summary.bold) : LabelOf(i) = label})

\* C4: when every entry yields a task label, the task list holds, between
\* its header and footer, one line per distinct label, in strictly
\* increasing lexicographic order, each with the number of entries bearing
\* the label and "run" for one, "runs" otherwise; with no functional series
\* the task list is empty.
C4_TaskLinesCountRuns ==
    (IsSubject /\ srun.outcome = "ok") =>
        \E tasks \in {files[ReportFile].tasks} :
            IF Len(summary.bold) = 0 THEN tasks = <<>>
            ELSE /\ Len(tasks) = Cardinality(Labels) + 2
                 /\ tasks[1] = TaskHeader
                 /\ tasks[Len(tasks)] = TaskFooter
                 /\ \A k \in 2..(Len(tasks) - 1) :
                       /\ tasks[k][2] \in Labels
                       /\ tasks[k][4] = Format_d(RunsOf(tasks[k][2]))
                       /\ tasks[k][5] = <<" run">>
                       /\ tasks[k][6] = IF RunsOf(tasks[k][2]) = 1 THEN <<>> ELSE <<"s">>
                       /\ k > 2 => LexLess(tasks[k - 1][2], tasks[k][2])

\* two labels that first appear in the opposite of their sorted order
C4_Witness ==
    /\ IsSubject /\ srun.outcome = "ok"
    /\ Len(summary.bold) = 2
    /\ summary.bold[1] = File(REST_RUN1)
    /\ summary.bold[2] = File(MOTOR)

\* C5: a functional-series entry for which the pattern finds no match or no
\* task label makes the invocation fail: report.html is not written and
\* out_report is neither set nor listed.
C5_BadNameIsFatal ==
    (IsSubject /\ srun.outcome # "none"
        /\ \E i \in 1..Len(summary.bold) : ~Parses(i)) =>
        /\ srun.outcome = "raised"
        /\ ~exists(files, ReportFile)
        /\ files = srun.files_before
        /\ summary._results.out_report = srun.results_before.out_report
        /\ srun.outputs = NoResults

\* the failing entry comes after one that parses
C5_Witness ==
    /\ IsSubject /\ srun.outcome = "raised"
    /\ srun.error \in {"AttributeError", "TypeError"}
    /\ Len(summary.bold) = 2
    /\ Parses(1) /\ ~Parses(2)
    /\ ~isdefined(summary.subjects_dir)

\* C6: whatever the inputs, subject identifier supplied or not, the status
\* rendered is "Not run" exactly when no subjects directory is supplied,
\* else "Pre-existing directory" when the wrapper's command line is a no-op
\* and "Run by pipeline" when it is not.
C6_ReconStatus ==
    (IsSubject /\ srun.outcome # "none"
        /\ \A i \in 1..Len(summary.bold) : Parses(i)) =>
        /\ srun.outcome = "ok"
        /\ files[ReportFile].freesurfer_status =
               IF ~isdefined(summary.subjects_dir) THEN NotRun
               ELSE IF srun.env.recon_noop THEN PreExisting
               ELSE RunByPipeline

\* C8 as stated: a completed run lists exactly one output field, out_report.
C8_ExactlyOneField ==
    srun.outcome = "ok" =>
        /\ srun.outputs.out_report = ReportFile
        /\ srun.outputs.subject_id = Undefined

\* C8, amended: a completed run lists out_report = <cwd>/report.html, the
\* file holding the segment rendered in that run; AboutSummary lists nothing
\* else, SubjectSummary also subject_id whenever the identifier is supplied;
\* a run whose rendering raises (the base class always) opens no file and
\* sets no out_report.
C8_OutReportAfterWrite ==
    /\ srun.outcome = "ok" =>
          /\ srun.outputs.out_report = ReportFile
          /\ exists(files, ReportFile)
          /\ files[ReportFile] = generate_segment(summary, srun.env).segment
          /\ ~IsSubject => srun.outputs.subject_id = Undefined
          /\ (IsSubject /\ isdefined(summary.subject_id)) =>
                 srun.outputs.subject_id = summary.subject_id
    /\ srun.outcome = "raised" =>
          /\ files = srun.files_before
          /\ summary._results.out_report = srun.results_before.out_report
          /\ srun.outputs = NoResults
    /\ (summary.kind = "SummaryInterface" /\ srun.outcome # "none") =>
          srun.error = "NotImplementedError"

\* a completed SubjectSummary run that lists subject_id beside out_report
C8_Witness ==
    /\ IsSubject /\ srun.outcome = "ok"
    /\ srun.outputs.out_report = ReportFile
    /\ isdefined(srun.outputs.subject_id)

\* C9: the segment of a completed SubjectSummary run holds the subject id as
\* given, the number of T1-weighted images, the T2 annotation with the
\* number of T2-weighted images exactly when there are some, and the number
\* of functional-series entries, a list-valued entry counting once.
C9_SegmentCounts ==
    (IsSubject /\ srun.outcome = "ok") =>
        \E seg \in {files[ReportFile]} :
            /\ seg.subject_id = summary.subject_id
            /\ seg.n_t1s = Format_d(Len(summary.t1w))
            /\ seg.t2w = IF Len(summary.t2w) = 0 THEN <<>>
                         ELSE <<"(+ ">> \o Format_d(Len(summary.t2w)) \o <<" T2-weighted)">>
            /\ seg.n_bold = Format_d(Len(summary.bold))

\* a list-valued entry, T2-weighted images and a subject id in one run
C9_Witness ==
    /\ IsSubject /\ srun.outcome = "ok"
    /\ isdefined(summary.subject_id)
    /\ Len(summary.t1w) = 2 /\ Len(summary.t2w) = 1
    /\ \E i \in 1..Len(summary.bold) : summary.bold[i].islist

====
